---------------------------- MODULE Spec2Model ----------------------------
(***************************************************************************)
(* A model of pyrolite.geochem.transform: conversion factors between the   *)
(* forms of one cation, mass/molar conversion of tables, aggregation and   *)
(* redistribution of a cation, ratios, Mg#, the schema reconciler          *)
(* convert_chemistry and the row bookkeeping of lambda_lnREE.              *)
(*                                                                         *)
(* Numbers are exact rationals <<numerator, denominator>>: the floating    *)
(* point values of the program are modelled by the reals they stand for,   *)
(* so "equal" below means equal before rounding.  <<0,0>> is NaN (the      *)
(* missing value of a table), <<1,0>> and <<-1,0>> are the infinities.     *)
(***************************************************************************)
EXTENDS Integers, Sequences, FiniteSets, TLC

VARIABLES
    pc,          \* position of the call in progress
    call,        \* the operation called and its arguments
    before,      \* the content of the caller's table when the call was made
    input_df,    \* the table object the caller passed in (its current content)
    df,          \* the working table / intermediate value of the call
    df_is_input, \* TRUE when the working reference is the caller's object
    result,      \* the value returned to the caller
    err,         \* the exception raised, "none" when there is none
    plan,        \* convert_chemistry's locals
    refcomp      \* the reference composition object the caller holds

vars == <<pc, call, before, input_df, df, df_is_input, result, err, plan, refcomp>>

-----------------------------------------------------------------------------
(* Bounds of the model *)

MaxCols == 2
MaxRows == 1
MaxTo == 2

\* columns of a table handed to add_MgNo alone
MaxMgCols == 3

-----------------------------------------------------------------------------
(* Exact arithmetic on <<n, d>> *)

Abs(x) == IF x < 0 THEN -x ELSE x

Sgn(x) == IF x < 0 THEN -1 ELSE IF x > 0 THEN 1 ELSE 0

RECURSIVE GCD(_, _)
GCD(a, b) == IF b = 0 THEN a ELSE GCD(b, a % b)

NaN == <<0, 0>>
Inf == <<1, 0>>

Norm(n, d) ==
    IF d = 0 THEN <<Sgn(n), 0>>
    ELSE LET g == GCD(Abs(n), Abs(d))
             s == Sgn(d)
         IN  <<(s * n) \div g, (s * d) \div g>>

R(n) == <<n, 1>>
Frac(n, d) == Norm(n, d)

IsNaN(a) == a = NaN
IsFinite(a) == a[2] # 0

RMul(a, b) == Norm(a[1] * b[1], a[2] * b[2])

RInv(a) == Norm(a[2], a[1])

RDiv(a, b) == RMul(a, RInv(b))

RAdd(a, b) ==
    IF a[2] = 0 /\ b[2] = 0
    THEN (IF a = b THEN a ELSE NaN)
    ELSE Norm(a[1] * b[2] + b[1] * a[2], a[2] * b[2])

\* a < b as numpy compares: FALSE when either side is NaN
RLess(a, b) ==
    /\ ~IsNaN(a) /\ ~IsNaN(b)
    /\ IF a[2] = 0 THEN a[1] < 0 /\ b # a
       ELSE IF b[2] = 0 THEN b[1] > 0
       ELSE a[1] * b[2] < b[1] * a[2]

RLeq(a, b) == ~IsNaN(a) /\ ~IsNaN(b) /\ (a = b \/ RLess(a, b))

-----------------------------------------------------------------------------
(* Sequences *)

Range(s) == {s[i] : i \in 1..Len(s)}

RECURSIVE SeqFilter(_, _)
SeqFilter(s, S) ==
    IF s = <<>> THEN <<>>
    ELSE (IF Head(s) \in S THEN <<Head(s)>> ELSE <<>>) \o SeqFilter(Tail(s), S)

RECURSIVE SeqReject(_, _)
SeqReject(s, S) ==
    IF s = <<>> THEN <<>>
    ELSE (IF Head(s) \in S THEN <<>> ELSE <<Head(s)>>) \o SeqReject(Tail(s), S)

\* the sequences without repetition over S of length at most n
RECURSIVE Arrangements(_, _)
Arrangements(S, n) ==
    IF n = 0 THEN {<<>>}
    ELSE {<<>>} \cup
         UNION {{<<x>> \o s : s \in Arrangements(S \ {x}, n - 1)} : x \in S}

\* the subsequences of s of length at most n
RECURSIVE SubSeqs(_, _)
SubSeqs(s, n) ==
    IF s = <<>> \/ n = 0 THEN {<<>>}
    ELSE SubSeqs(Tail(s), n)
            \cup {<<Head(s)>> \o x : x \in SubSeqs(Tail(s), n - 1)}

RECURSIVE Tuples(_, _)
Tuples(S, n) ==
    IF n = 0 THEN {<<>>}
    ELSE {<<x>> \o s : x \in S, s \in Tuples(S, n - 1)}

-----------------------------------------------------------------------------
(* Chemistry: the data the program reads from periodictable and from       *)
(* pyrolite.geochem.ind, restricted to three cations.  Atomic masses are   *)
(* rounded to integers.                                                    *)

Cations == {"Mg", "Fe", "Ca"}

\* the strings pt.formula parses; "T" is tritium, so "FeOT" is Fe + O + T
Formulae == {"Mg", "MgO", "Fe", "FeO", "Fe2O3", "Ca", "CaO", "FeOT", "Fe2O3T", "O2"}

Atoms(f) ==
    CASE f = "Mg"     -> ("Mg" :> 1)
      [] f = "MgO"    -> ("Mg" :> 1 @@ "O" :> 1)
      [] f = "Fe"     -> ("Fe" :> 1)
      [] f = "FeO"    -> ("Fe" :> 1 @@ "O" :> 1)
      [] f = "Fe2O3"  -> ("Fe" :> 2 @@ "O" :> 3)
      [] f = "Ca"     -> ("Ca" :> 1)
      [] f = "CaO"    -> ("Ca" :> 1 @@ "O" :> 1)
      [] f = "FeOT"   -> ("Fe" :> 1 @@ "O" :> 1 @@ "T" :> 1)
      [] f = "Fe2O3T" -> ("Fe" :> 2 @@ "O" :> 3 @@ "T" :> 1)
      [] f = "O2"     -> ("O" :> 2)

AtomicMass(e) ==
    CASE e = "Mg" -> 24
      [] e = "Fe" -> 56
      [] e = "Ca" -> 40
      [] e = "O"  -> 16
      [] e = "T"  -> 3

RECURSIVE MassOf(_, _)
MassOf(atoms, els) ==
    IF els = {} THEN 0
    ELSE LET e == CHOOSE x \in els : TRUE
         IN  atoms[e] * AtomicMass(e) + MassOf(atoms, els \ {e})

\* pt.formula(f).mass
Mass(f) == MassOf(Atoms(f), DOMAIN Atoms(f))

\* util.text.remove_suffix with the default total suffix "T"
remove_suffix(z) ==
    CASE z = "FeOT"   -> "FeO"
      [] z = "Fe2O3T" -> "Fe2O3"
      [] z = "FeT"    -> "Fe"
      [] z = "MgOT"   -> "MgO"
      [] z = "MgT"    -> "Mg"
      [] z = "CaOT"   -> "CaO"
      [] z = "CaT"    -> "Ca"
      [] OTHER        -> z

add_suffix(z) ==
    CASE z = "FeO"   -> "FeOT"
      [] z = "Fe2O3" -> "Fe2O3T"
      [] z = "Fe"    -> "FeT"
      [] z = "MgO"   -> "MgOT"
      [] z = "Mg"    -> "MgT"
      [] z = "CaO"   -> "CaOT"
      [] z = "Ca"    -> "CaT"

\* ind.get_cations(name)[0]: the non-oxygen element of the suffix-stripped formula
CanGetCation(name) == remove_suffix(name) \in Formulae

get_cation(name) ==
    CHOOSE e \in DOMAIN Atoms(remove_suffix(name)) : e # "O"

\* ind.simple_oxides(cation): one oxide per positive ion charge
simple_oxides(cation) ==
    CASE cation = "Mg" -> <<"MgO">>
      [] cation = "Fe" -> <<"FeO", "Fe2O3">>
      [] cation = "Ca" -> <<"CaO">>

\* ind.__common_oxides__ | ind.__common_elements__, within the model's names
compositional_components ==
    {"Mg", "MgO", "Fe", "FeO", "Fe2O3", "Ca", "CaO", "FeOT", "Fe2O3T"}

-----------------------------------------------------------------------------
(* oxide_conversion *)

NonOxygen(f) == DOMAIN Atoms(f) \ {"O"}

\* the same cation coefficient with the output count left out
cation_coefficient_in_only(oxin, oxout) ==
    R(Atoms(oxin)[CHOOSE e \in NonOxygen(oxin) : TRUE])

\* line 145: moles of product per mole of reactant
cation_coefficient(oxin, oxout) ==
    Frac(Atoms(oxin)[CHOOSE e \in NonOxygen(oxin) : TRUE],
         Atoms(oxout)[CHOOSE e \in NonOxygen(oxout) : TRUE])

\* the checks of lines 128-143 with the comparison of the two elements (line 141) left out
oxide_conversion_error_counts_only(oxin, oxout) ==
    IF oxin \notin Formulae \/ oxout \notin Formulae THEN "ParseError"
    ELSE IF /\ Cardinality(NonOxygen(oxin)) = Cardinality(NonOxygen(oxout))
            /\ Cardinality(NonOxygen(oxin)) = 1
         THEN "none"
         ELSE "ValueError"

\* lines 128-143: "ParseError" when pt.formula rejects a string, "ValueError"
\* unless both forms have exactly one non-oxygen element and it is the same
oxide_conversion_error(oxin, oxout) ==
    IF oxin \notin Formulae \/ oxout \notin Formulae THEN "ParseError"
    ELSE IF /\ Cardinality(NonOxygen(oxin)) = Cardinality(NonOxygen(oxout))
            /\ Cardinality(NonOxygen(oxin)) = 1
            /\ NonOxygen(oxin) = NonOxygen(oxout)
         THEN "none"
         ELSE "ValueError"

\* lines 147-151: the factor convert_series multiplies by
conversion_factor(oxin, oxout, molecular) ==
    IF molecular
    THEN cation_coefficient(oxin, oxout)
    ELSE RMul(cation_coefficient(oxin, oxout), Frac(Mass(oxout), Mass(oxin)))

\* lines 152-153: convert_series applied to one value
convert_value(x, oxin, oxout, molecular) ==
    RMul(x, conversion_factor(oxin, oxout, molecular))

-----------------------------------------------------------------------------
(* Tables (pandas.DataFrame): ordered column names, one value sequence per *)
(* column, n rows.  A Series is a table with one column.                   *)

Table(cols, vals, n) == [columns |-> cols, values |-> vals, n |-> n]

EmptyTable == Table(<<>>, <<>>, 0)

HasCol(t, c) == \E i \in 1..Len(t.columns) : t.columns[i] = c

ColIdx(t, c) == CHOOSE i \in 1..Len(t.columns) : t.columns[i] = c

Col(t, c) == t.values[ColIdx(t, c)]

NaNCol(n) == [r \in 1..n |-> NaN]

\* df[c] = v: overwrite the column, or append it when it is new
SetCol(t, c, v) ==
    IF HasCol(t, c)
    THEN [t EXCEPT !.values[ColIdx(t, c)] = v]
    ELSE [t EXCEPT !.columns = Append(@, c), !.values = Append(@, v)]

KeptIdx(t, S) == {i \in 1..Len(t.columns) : t.columns[i] \notin S}

RECURSIVE PickIdx(_, _, _)
PickIdx(s, keep, i) ==
    IF i > Len(s) THEN <<>>
    ELSE (IF i \in keep THEN <<s[i]>> ELSE <<>>) \o PickIdx(s, keep, i + 1)

\* df.drop(columns=S), df.loc[:, [c for c in df.columns if c not in S]]
DropCols(t, S) ==
    Table(PickIdx(t.columns, KeptIdx(t, S), 1), PickIdx(t.values, KeptIdx(t, S), 1), t.n)

\* df.loc[:, cols]
SelectCols(t, cols) ==
    Table(cols, [i \in 1..Len(cols) |-> Col(t, cols[i])], t.n)

\* df.multiply(factors): column i multiplied by factors[i]
ScaleColumns(t, factors) ==
    [t EXCEPT !.values =
        [i \in 1..Len(t.columns) |-> [r \in 1..t.n |-> RMul(t.values[i][r], factors[i])]]]

RECURSIVE RowSumSkipNaN(_, _, _)
RowSumSkipNaN(t, r, i) ==
    IF i > Len(t.columns) THEN R(0)
    ELSE RAdd(IF IsNaN(t.values[i][r]) THEN R(0) ELSE t.values[i][r],
              RowSumSkipNaN(t, r, i + 1))

\* comp.codata.renormalise(df): every row rescaled to sum to 100
renormalise(t) ==
    [t EXCEPT !.values =
        [i \in 1..Len(t.columns) |->
            [r \in 1..t.n |->
                LET total == RowSumSkipNaN(t, r, 1)
                    d == IF total = R(0) THEN R(100) ELSE total
                IN  RMul(RDiv(t.values[i][r], d), R(100))]]]

-----------------------------------------------------------------------------
(* to_molecular, to_weight *)

\* lines 48, 73: pt.formula(c).mass for every column
molecular_weights_error(t) ==
    IF \E i \in 1..Len(t.columns) : t.columns[i] \notin Formulae
    THEN "ParseError" ELSE "none"

\* line 48, 73: MWs = [pt.formula(c).mass for c in df.columns]
MWs(t) == [i \in 1..Len(t.columns) |-> R(Mass(t.columns[i]))]

InvMWs(t) == [i \in 1..Len(t.columns) |-> RInv(R(Mass(t.columns[i])))]

\* lines 30-52: df.div(MWs)
to_molecular(t, renorm) ==
    IF renorm THEN renormalise(ScaleColumns(t, InvMWs(t))) ELSE ScaleColumns(t, InvMWs(t))

\* to_weight dividing where it should multiply
to_weight_dividing(t, renorm) ==
    IF renorm THEN renormalise(ScaleColumns(t, InvMWs(t))) ELSE ScaleColumns(t, InvMWs(t))

\* lines 55-77: df.multiply(MWs)
to_weight(t, renorm) ==
    IF renorm THEN renormalise(ScaleColumns(t, MWs(t))) ELSE ScaleColumns(t, MWs(t))

-----------------------------------------------------------------------------
(* Speciation specs: the `to` / `component` argument.                      *)
(*   kind "str"  : a single name                                           *)
(*   kind "dict" : a mapping, items = <<  <<name, proportion>>, ... >>     *)
(*   kind "list" : a list or tuple of names (proportions unused)           *)
(* logdata is False (the default) throughout the model.                    *)

Single(name) == [kind |-> "str", name |-> name, items |-> <<>>]
Mapping(items) == [kind |-> "dict", name |-> "", items |-> items]
Listing(items) == [kind |-> "list", name |-> "", items |-> items]

NoneTo == "None"

Keys(spec) == [i \in 1..Len(spec.items) |-> spec.items[i][1]]
Proportions(spec) == [i \in 1..Len(spec.items) |-> spec.items[i][2]]

RECURSIVE SeqSum(_)
SeqSum(s) == IF s = <<>> THEN R(0) ELSE RAdd(Head(s), SeqSum(Tail(s)))

\* comp.codata.close on a vector: every entry divided by the sum
close(props) == [i \in 1..Len(props) |-> RDiv(props[i], SeqSum(props))]

-----------------------------------------------------------------------------
(* elemental_sum *)

\* lines 190-196: the exception raised while resolving the cation
resolve_cation_error(component) ==
    IF component.kind = "str"
    THEN (IF CanGetCation(component.name) THEN "none" ELSE "ParseError")
    ELSE IF component.items = <<>> THEN "IndexError"
    ELSE IF \E k \in Range(Keys(component)) : ~CanGetCation(k) THEN "ParseError"
    ELSE IF \E k \in Range(Keys(component)) :
                get_cation(k) # get_cation(Keys(component)[1])
         THEN "AssertionError"
         ELSE "none"

\* lines 191-198
resolve_cation(component) ==
    IF component.kind = "str"
    THEN get_cation(component.name)
    ELSE get_cation(Keys(component)[1])

\* lines 201-202
poss_specs(cationname) ==
    ({cationname} \cup Range(simple_oxides(cationname)))
        \cup {add_suffix(i) : i \in {cationname} \cup Range(simple_oxides(cationname))}

\* line 203
present_species(t, cationname) ==
    {i \in poss_specs(cationname) : HasCol(t, i)}

\* one cell converted to the cation, only the non-finite values zeroed
converted_negatives_kept(v, s, cationname, molecular) ==
    LET c == convert_value(v, remove_suffix(s), cationname, molecular)
    IN  IF ~IsFinite(c) THEN R(0) ELSE c

\* lines 221-228: one cell converted to the cation, then zeroed when it is
\* negative or not finite
converted_zeroed(v, s, cationname, molecular) ==
    LET c == convert_value(v, remove_suffix(s), cationname, molecular)
    IN  IF ~IsFinite(c) \/ RLess(c, R(0)) THEN R(0) ELSE c

RECURSIVE species_sum(_, _, _, _, _)
species_sum(t, r, species, cationname, molecular) ==
    IF species = {} THEN R(0)
    ELSE LET s == CHOOSE x \in species : TRUE
         IN  RAdd(converted_zeroed(Col(t, s)[r], s, cationname, molecular),
                  species_sum(t, r, species \ {s}, cationname, molecular))

\* the row sum without the nulling of non-positive sums of line 230
subsum_row_unmasked(t, r, cationname, molecular) ==
    IF present_species(t, cationname) = {} THEN NaN
    ELSE species_sum(t, r, present_species(t, cationname), cationname, molecular)

\* lines 204-230: the aggregate of one row
subsum_row(t, r, cationname, molecular) ==
    IF present_species(t, cationname) = {} THEN NaN
    ELSE LET x == species_sum(t, r, present_species(t, cationname), cationname, molecular)
         IN  IF RLeq(x, R(0)) THEN NaN ELSE x

\* lines 190-237: the exception elemental_sum raises, "none" when it returns
elemental_sum_error(t, component, to, molecular) ==
    IF resolve_cation_error(component) # "none" THEN resolve_cation_error(component)
    ELSE IF to = NoneTo THEN "none"
    ELSE oxide_conversion_error(resolve_cation(component), to)

\* lines 232-237: the name of the returned series
elemental_sum_name(component, to) ==
    IF to = NoneTo THEN resolve_cation(component) ELSE to

\* lines 160-237: the values of the returned series
elemental_sum(t, component, to, molecular) ==
    LET cationname == resolve_cation(component)
    IN  [r \in 1..t.n |->
            IF to = NoneTo
            THEN subsum_row(t, r, cationname, molecular)
            ELSE convert_value(subsum_row(t, r, cationname, molecular),
                               cationname, to, molecular)]

-----------------------------------------------------------------------------
(* aggregate_element, recalculate_Fe                                       *)
(* A call on a table object returns                                        *)
(*   err  : the exception raised, or "none"                                *)
(*   ret  : the table returned                                             *)
(*   arg  : the content of the argument object after the call              *)
(*   same : TRUE when the returned table is the argument object itself     *)

Outcome(e, ret, arg, same) == [err |-> e, ret |-> ret, arg |-> arg, same |-> same]

Raised(e, t) == Outcome(e, EmptyTable, t, FALSE)

\* lines 288, 294, 299
targetnames(to) == IF to.kind = "str" THEN <<to.name>> ELSE Keys(to)

\* lines 281-283: the oxide columns of the cation that the table holds
oxide_species(t, cation) ==
    SeqFilter(simple_oxides(cation)
                \o [i \in 1..Len(simple_oxides(cation)) |-> add_suffix(simple_oxides(cation)[i])],
              Range(t.columns))

\* lines 287, 305
drop_columns(t, to, cation) ==
    Range(oxide_species(t, cation)) \ Range(targetnames(to))

\* coefficients that ignore the proportions of a mapping
coeff_without_props(to, cation, molecular) ==
    IF to.kind = "str"
    THEN <<conversion_factor(cation, remove_suffix(to.name), molecular)>>
    ELSE [i \in 1..Len(to.items) |-> conversion_factor(cation, Keys(to)[i], molecular)]

\* lines 290, 300-304: oxide_conversion(cation, target)(proportion)
coeff(to, cation, molecular) ==
    IF to.kind = "str"
    THEN <<convert_value(R(1), cation, remove_suffix(to.name), molecular)>>
    ELSE [i \in 1..Len(to.items) |->
            convert_value(close(Proportions(to))[i], cation, Keys(to)[i], molecular)]

\* the exception raised when a list or tuple is handled as a mapping is
aggregate_element_error_lists_as_mappings(t, to, molecular) ==
    IF elemental_sum_error(t, to, NoneTo, molecular) # "none"
    THEN elemental_sum_error(t, to, NoneTo, molecular)
    ELSE IF to.kind = "str" THEN "none"
    ELSE IF \E k \in Range(Keys(to)) :
                oxide_conversion_error(resolve_cation(to), k) # "none"
         THEN "ValueError" ELSE "none"

\* lines 277-307: the exception raised before anything is written
aggregate_element_error(t, to, molecular) ==
    IF elemental_sum_error(t, to, NoneTo, molecular) # "none"
    THEN elemental_sum_error(t, to, NoneTo, molecular)
    ELSE IF to.kind = "str" THEN "none"
    ELSE IF to.kind = "dict"
    THEN (IF \E k \in Range(Keys(to)) :
                oxide_conversion_error(resolve_cation(to), k) # "none"
          THEN "ValueError" ELSE "none")
    ELSE "NotImplementedError"

RECURSIVE write_targets(_, _, _, _, _)
\* lines 318-330: df[targetnames] = subsum * coeff, one column per target
write_targets(t, names, coeffs, subsum, j) ==
    IF j > Len(names) THEN t
    ELSE write_targets(SetCol(t, names[j], [r \in 1..t.n |-> RMul(subsum[r], coeffs[j])]),
                       names, coeffs, subsum, j + 1)

\* lines 240-334
aggregate_element(t, to, renorm, molecular) ==
    LET e == aggregate_element_error(t, to, molecular)
    IN
    IF e # "none"
    THEN Raised(e, t)
    ELSE LET cation  == resolve_cation(to)
             subsum  == elemental_sum(t, to, NoneTo, molecular)
             drop    == drop_columns(t, to, cation)
             base    == IF drop # {} THEN DropCols(t, drop) ELSE t
             written == write_targets(base, targetnames(to),
                                      coeff(to, cation, molecular), subsum, 1)
         IN  Outcome("none",
                     IF renorm THEN renormalise(written) ELSE written,
                     IF drop # {} THEN t ELSE written,
                     drop = {} /\ ~renorm)

\* lines 337-383
recalculate_Fe(t, to, renorm, molecular) == aggregate_element(t, to, renorm, molecular)

-----------------------------------------------------------------------------
(* Reference compositions and unit scaling: pyrolite.geochem.norm and       *)
(* pyrolite.util.units.  A composition is [units, value], value a function  *)
(* from the names it holds to abundances.                                   *)

\* the abundance the reference composition holds for a name, in ppm
reference_abundance(el) == IF el \in {"Ce", "FeO", "Fe"} THEN R(10) ELSE R(1)

RefNames == {"La", "Ce", "Eu", "MgO", "FeO", "Mg", "Fe"}

\* get_reference_composition("Chondrite_PON"): a composition stored in ppm
Chondrite_PON == [units |-> "ppm", value |-> [x \in RefNames |-> reference_abundance(x)]]

\* util.units.scale(in_unit, target_unit)
scale(in_unit, target_unit) ==
    IF in_unit = target_unit THEN R(1)
    ELSE IF in_unit = "ppm" THEN Frac(1, 10000)
    ELSE R(10000)

\* RefComp.set_units(to): every stored value rescaled, the units replaced
set_units(rc, to) ==
    [units |-> to,
     value |-> [x \in DOMAIN rc.value |-> RMul(rc.value[x], scale(rc.units, to))]]

-----------------------------------------------------------------------------
(* add_ratio: a ratio string "A/B" or "A/B_n" is held as it is parsed by     *)
(* lines 423-427: num is the text before "/", den the text after it, with a  *)
(* trailing "_n" removed and the rest title-cased, to_norm whether the       *)
(* suffix was there.  norm_to is None, a composition name, "RefComp" for a   *)
(* composition object (rc) or "collection" for a sequence (norm_pair).       *)

RatioParts(num, den, name, to_norm) ==
    [num |-> num, den |-> den, name |-> name, to_norm |-> to_norm]

Ratio(num, den, name) == RatioParts(num, den, name, FALSE)

\* line 429
normalisation_requested(ratio, norm_to) == ratio.to_norm \/ norm_to # NoneTo

\* norm[num].value, norm[den].value: a name the composition does not hold is a KeyError;
\* num_n, den_n = norm_to: a sequence of another length than two is a ValueError
reference_lookup_error(ratio, norm_to, norm_pair, rc) ==
    IF ~normalisation_requested(ratio, norm_to) THEN "none"
    ELSE IF norm_to = "collection"
         THEN IF Len(norm_pair) = 2 THEN "none" ELSE "ValueError"
    ELSE LET norm == IF norm_to = "RefComp" THEN rc ELSE Chondrite_PON
         IN  IF {ratio.num, ratio.den} \subseteq DOMAIN norm.value THEN "none" ELSE "KeyError"

\* lines 429-439: num_n, den_n
reference_values(ratio, norm_to, norm_pair, rc) ==
    IF norm_to = "collection" THEN norm_pair
    ELSE LET norm == IF norm_to = "RefComp" THEN rc ELSE Chondrite_PON
         IN  <<norm.value[ratio.num], norm.value[ratio.den]>>

\* lines 429-446: the reference lookups come before the two sums
add_ratio_error(t, ratio, norm_to, norm_pair, rc, molecular) ==
    IF reference_lookup_error(ratio, norm_to, norm_pair, rc) # "none"
    THEN reference_lookup_error(ratio, norm_to, norm_pair, rc)
    ELSE IF elemental_sum_error(t, Single(ratio.num), ratio.num, molecular) # "none"
    THEN elemental_sum_error(t, Single(ratio.num), ratio.num, molecular)
    ELSE elemental_sum_error(t, Single(ratio.den), ratio.den, molecular)

\* lines 443-448: ratio = numsum / densum; num_n and den_n are not read
ratio_values(t, ratio, molecular) ==
    LET numsum == elemental_sum(t, Single(ratio.num), ratio.num, molecular)
        densum == elemental_sum(t, Single(ratio.den), ratio.den, molecular)
    IN  [r \in 1..t.n |->
            LET q == RDiv(numsum[r], densum[r])
            IN  IF IsFinite(q) THEN q ELSE NaN]

\* lines 386-450
add_ratio(t, ratio, norm_to, norm_pair, rc, molecular) ==
    LET e == add_ratio_error(t, ratio, norm_to, norm_pair, rc, molecular)
    IN
    IF e # "none"
    THEN Raised(e, t)
    ELSE LET written == SetCol(t, ratio.name, ratio_values(t, ratio, molecular))
         IN  Outcome("none", written, written, TRUE)

-----------------------------------------------------------------------------
(* add_MgNo *)

\* "Fe2O3" in name
ContainsFe2O3(name) == name \in {"Fe2O3", "Fe2O3T"}

\* the Fe sum over every column of the table, ferric iron included
ferrous_sum_unfiltered(t, molecular) ==
    elemental_sum(t, Single("Fe"), NoneTo, molecular)

\* lines 491-492
ferrous_sum(t, molecular) ==
    elemental_sum(DropCols(t, {c \in Range(t.columns) : ContainsFe2O3(c)}),
                  Single("Fe"), NoneTo, molecular)

\* Mg / Fe where the code has Mg / (Mg + Fe)
MgNo_values_plain_ratio(t, molecular) ==
    LET mg0 == elemental_sum(t, Single("Mg"), NoneTo, molecular)
        fe0 == ferrous_sum(t, molecular)
        mg  == IF molecular THEN mg0
               ELSE to_molecular(Table(<<"Mg">>, <<mg0>>, t.n), FALSE).values[1]
        fe  == IF molecular THEN fe0
               ELSE to_molecular(Table(<<"Fe">>, <<fe0>>, t.n), FALSE).values[1]
    IN  [r \in 1..t.n |-> RDiv(mg[r], fe[r])]

\* lines 486-499 with use_total_approx = False
MgNo_values(t, molecular) ==
    LET mg0 == elemental_sum(t, Single("Mg"), NoneTo, molecular)
        fe0 == ferrous_sum(t, molecular)
        mg  == IF molecular THEN mg0
               ELSE to_molecular(Table(<<"Mg">>, <<mg0>>, t.n), FALSE).values[1]
        fe  == IF molecular THEN fe0
               ELSE to_molecular(Table(<<"Fe">>, <<fe0>>, t.n), FALSE).values[1]
    IN  [r \in 1..t.n |-> RDiv(mg[r], RAdd(mg[r], fe[r]))]

\* lines 453-504; line 489 passes `to` twice, which Python rejects with a TypeError
add_MgNo(t, molecular, use_total_approx) ==
    IF use_total_approx
    THEN Raised("TypeError", t)
    ELSE LET written == SetCol(t, "Mg#", MgNo_values(t, molecular))
         IN  Outcome("none", written, written, TRUE)

-----------------------------------------------------------------------------
(* Inputs *)

Vals == {NaN, R(-1), R(2)}

\* t is a table with one of the column lists colseqs, at most rows rows and
\* values in V
IsTableOver(t, colseqs, rows, V) ==
    \E cols \in colseqs : \E n \in 0..rows :
        \E vals \in [1..Len(cols) -> [1..n -> V]] : t = Table(cols, vals, n)

NoCall ==
    [op |-> "", to |-> Single(""), component |-> Single(""), cast |-> NoneTo,
     tolist |-> <<>>, ratio |-> Ratio("", "", ""), molecular |-> FALSE,
     renorm |-> FALSE, use_total_approx |-> FALSE, oxin |-> "", oxout |-> "",
     norm_to |-> NoneTo, exclude |-> {}, degree |-> 0, scale |-> "ppm",
     append |-> {}, norm_pair |-> <<>>]

NoPlan ==
    [noncomp |-> <<>>, get_comp |-> <<>>, coupled_sets |-> <<>>,
     coupled_components |-> <<>>, new_ratios |-> <<>>, ratios_left |-> <<>>,
     agg_present |-> {}, get_notpresent |-> {}, get_fe |-> <<>>,
     fe_run |-> FALSE, remaining |-> <<>>]

-----------------------------------------------------------------------------
(* Conversions: oxide_conversion there and back, to_molecular then to_weight *)

OxForms == Formulae \cup {"Label"}

BasisNames == {"MgO", "Fe2O3", "FeOT", "Label"}

OxCalls ==
    {[NoCall EXCEPT !.op = "oxide_conversion", !.oxin = a, !.oxout = b, !.molecular = m] :
        a \in OxForms, b \in OxForms, m \in BOOLEAN}

BasisCalls == {[NoCall EXCEPT !.op = "to_molecular", !.renorm = b] : b \in BOOLEAN}

InitConv ==
    /\ pc = "start"
    /\ call \in OxCalls \cup BasisCalls
    /\ IF call.op = "oxide_conversion"
       THEN IsTableOver(input_df, {<<call.oxin>>}, MaxRows, Vals \cup {R(0)})
       ELSE IsTableOver(input_df, Arrangements(BasisNames, MaxCols), MaxRows, Vals)
    /\ before = input_df
    /\ df = EmptyTable
    /\ df_is_input = FALSE
    /\ result = EmptyTable
    /\ err = "none"
    /\ plan = NoPlan
    /\ refcomp = Chondrite_PON

\* conv = oxide_conversion(oxin, oxout, molecular); conv(series)
OxConvert ==
    /\ pc = "start" /\ call.op = "oxide_conversion"
    /\ IF oxide_conversion_error(call.oxin, call.oxout) # "none"
       THEN /\ err' = oxide_conversion_error(call.oxin, call.oxout)
            /\ pc' = "raised"
            /\ df' = df
       ELSE /\ df' = ScaleColumns(input_df, <<conversion_factor(call.oxin, call.oxout, call.molecular)>>)
            /\ pc' = "converted"
            /\ err' = err
    /\ UNCHANGED <<call, before, input_df, df_is_input, result, plan, refcomp>>

\* back = oxide_conversion(oxout, oxin, molecular); back(conv(series))
OxConvertBack ==
    /\ pc = "converted" /\ call.op = "oxide_conversion"
    /\ IF oxide_conversion_error(call.oxout, call.oxin) # "none"
       THEN /\ err' = oxide_conversion_error(call.oxout, call.oxin)
            /\ pc' = "raised"
            /\ result' = result
       ELSE /\ result' = ScaleColumns(df, <<conversion_factor(call.oxout, call.oxin, call.molecular)>>)
            /\ pc' = "done"
            /\ err' = err
    /\ UNCHANGED <<call, before, input_df, df, df_is_input, plan, refcomp>>

\* to_molecular(X, renorm)
ToMolecular ==
    /\ pc = "start" /\ call.op = "to_molecular"
    /\ IF molecular_weights_error(input_df) # "none"
       THEN /\ err' = molecular_weights_error(input_df)
            /\ pc' = "raised"
            /\ df' = df
       ELSE /\ df' = to_molecular(input_df, call.renorm)
            /\ pc' = "molar"
            /\ err' = err
    /\ UNCHANGED <<call, before, input_df, df_is_input, result, plan, refcomp>>

\* to_weight(to_molecular(X, renorm), renorm)
ToWeight ==
    /\ pc = "molar" /\ call.op = "to_molecular"
    /\ result' = to_weight(df, call.renorm)
    /\ pc' = "done"
    /\ UNCHANGED <<call, before, input_df, df, df_is_input, err, plan, refcomp>>

NextConv == OxConvert \/ OxConvertBack \/ ToMolecular \/ ToWeight

SpecConv == InitConv /\ [][NextConv]_vars

\* C4: for two forms of one cation the factor A -> B times the factor B -> A
\* is 1, and a series converted A -> B -> A is the series it started as
C4_FactorsInverse ==
    (pc = "done" /\ call.op = "oxide_conversion") =>
        /\ RMul(conversion_factor(call.oxin, call.oxout, call.molecular),
                conversion_factor(call.oxout, call.oxin, call.molecular)) = R(1)
        /\ result = input_df

C4_Witness ==
    /\ pc = "done" /\ call.op = "oxide_conversion"
    /\ call.oxin = "Fe2O3" /\ call.oxout = "FeO" /\ ~call.molecular
    /\ input_df.n = 1 /\ input_df.values[1][1] = R(2)
    /\ df.values[1][1] = Frac(9, 5)

\* C5: without renormalisation to_weight undoes to_molecular cell by cell,
\* null cells included, whatever the order of the columns
C5_RoundTrip ==
    (pc = "done" /\ call.op = "to_molecular" /\ ~call.renorm) => result = input_df

C5_Witness ==
    /\ pc = "done" /\ call.op = "to_molecular" /\ ~call.renorm
    /\ input_df.columns = <<"Fe2O3", "MgO">> /\ input_df.n = 1
    /\ input_df.values[1][1] = NaN /\ input_df.values[2][1] = R(2)
    /\ df.values[2][1] = Frac(1, 20)

-----------------------------------------------------------------------------
(* Single calls on a caller's table *)

\* the caller sees the outcome o of a call on its table
Deliver(o) ==
    /\ err' = o.err
    /\ pc' = IF o.err = "none" THEN "done" ELSE "raised"
    /\ result' = o.ret
    /\ input_df' = o.arg
    /\ df_is_input' = o.same
    /\ UNCHANGED <<call, before, df, plan, refcomp>>

InitOf(calls, colseqs, V) ==
    /\ pc = "start"
    /\ call \in calls
    /\ IsTableOver(input_df, colseqs, MaxRows, V)
    /\ before = input_df
    /\ df = EmptyTable
    /\ df_is_input = FALSE
    /\ result = EmptyTable
    /\ err = "none"
    /\ plan = NoPlan
    /\ refcomp = Chondrite_PON

-----------------------------------------------------------------------------
(* elemental_sum *)

SumNames == <<"Mg", "FeO", "Fe2O3", "FeOT">>

ElementalSumCalls ==
    {[NoCall EXCEPT !.op = "elemental_sum", !.component = c, !.cast = x, !.molecular = m] :
        c \in {Single(y) : y \in {"Mg", "FeOT", "Label"}},
        x \in {NoneTo, "MgO", "Fe2O3", "FeOT"}, m \in BOOLEAN}

InitSum == InitOf(ElementalSumCalls, SubSeqs(SumNames, MaxCols), Vals \cup {R(0)})

\* elemental_sum(df, component, to=cast, molecular=molecular)
CallElementalSum ==
    /\ pc = "start" /\ call.op = "elemental_sum"
    /\ LET e == elemental_sum_error(input_df, call.component, call.cast, call.molecular)
           o == IF e # "none"
                THEN Raised(e, input_df)
                ELSE Outcome("none",
                        Table(<<elemental_sum_name(call.component, call.cast)>>,
                              <<elemental_sum(input_df, call.component, call.cast,
                                              call.molecular)>>,
                              input_df.n),
                        input_df, FALSE)
       IN  Deliver(o)

NextSum == CallElementalSum

SpecSum == InitSum /\ [][NextSum]_vars

-----------------------------------------------------------------------------
(* aggregate_element, recalculate_Fe *)

AggNames == <<"Mg", "MgO", "FeO", "FeOT", "Label">>

FeSplits ==
    {Mapping(<< <<"FeO", p[1]>>, <<"Fe2O3", p[2]>> >>) :
        p \in {<<Frac(9, 10), Frac(1, 10)>>, <<R(0), R(1)>>, <<R(1), R(3)>>}}

ToSpecs ==
    {Single(x) : x \in {"Mg", "MgO", "FeO", "FeOT"}}
        \cup FeSplits
        \cup {Mapping(<< <<"MgO", R(1)>>, <<"FeO", R(1)>> >>),
              Mapping(<< <<"FeOT", R(1)>>, <<"Fe2O3", R(1)>> >>),
              Listing(<< <<"FeO", R(1)>>, <<"Fe2O3", R(1)>> >>),
              Listing(<< <<"MgO", R(1)>>, <<"FeO", R(1)>> >>),
              Listing(<<>>)}

AggregateCalls ==
    {[NoCall EXCEPT !.op = "aggregate_element", !.to = x, !.renorm = b, !.molecular = m] :
        x \in ToSpecs, b \in BOOLEAN, m \in BOOLEAN}

RecalculateFeCalls ==
    {[NoCall EXCEPT !.op = "recalculate_Fe", !.to = x, !.renorm = b, !.molecular = m] :
        x \in {Single("FeOT")}, b \in BOOLEAN, m \in BOOLEAN}

InitAgg == InitOf(AggregateCalls \cup RecalculateFeCalls, SubSeqs(AggNames, MaxCols), Vals)

\* aggregate_element(df, to, renorm=renorm, molecular=molecular)
CallAggregateElement ==
    /\ pc = "start" /\ call.op = "aggregate_element"
    /\ \E o \in {aggregate_element(input_df, call.to, call.renorm, call.molecular)} : Deliver(o)

\* recalculate_Fe(df, to, renorm=renorm, molecular=molecular)
CallRecalculateFe ==
    /\ pc = "start" /\ call.op = "recalculate_Fe"
    /\ \E o \in {recalculate_Fe(input_df, call.to, call.renorm, call.molecular)} : Deliver(o)

NextAgg == CallAggregateElement \/ CallRecalculateFe

SpecAgg == InitAgg /\ [][NextAgg]_vars

-----------------------------------------------------------------------------
(* aggregate_element applied to its own result: once = aggregate_element(df, to), *)
(* then aggregate_element(once, to); df holds the first result, result the second *)

TwiceCalls ==
    {[NoCall EXCEPT !.op = "aggregate_element", !.to = Single(x), !.molecular = m] :
        x \in {"Mg", "MgO", "FeO", "FeOT"}, m \in BOOLEAN}

InitTwice == InitOf(TwiceCalls, SubSeqs(AggNames, MaxCols), Vals)

\* once = aggregate_element(df, to, molecular=molecular)
AggregateOnce ==
    /\ pc = "start" /\ call.op = "aggregate_element"
    /\ \E o \in {aggregate_element(input_df, call.to, call.renorm, call.molecular)} :
           /\ err' = o.err
           /\ pc' = IF o.err = "none" THEN "once" ELSE "raised"
           /\ df' = o.ret
           /\ input_df' = o.arg
           /\ df_is_input' = o.same
    /\ UNCHANGED <<call, before, result, plan, refcomp>>

\* aggregate_element(once, to, molecular=molecular)
AggregateAgain ==
    /\ pc = "once"
    /\ \E o \in {aggregate_element(df, call.to, call.renorm, call.molecular)} :
           /\ err' = o.err
           /\ pc' = IF o.err = "none" THEN "done" ELSE "raised"
           /\ result' = o.ret
           /\ df' = o.arg
           /\ input_df' = IF df_is_input THEN o.arg ELSE input_df
    /\ UNCHANGED <<call, before, df_is_input, plan, refcomp>>

NextTwice == AggregateOnce \/ AggregateAgain

SpecTwice == InitTwice /\ [][NextTwice]_vars

-----------------------------------------------------------------------------
(* add_ratio, add_MgNo *)

RatioNames == <<"Mg", "MgO", "FeO", "Fe2O3", "Label">>

Ratios ==
    {Ratio("MgO", "FeO", "MgO/FeO"), Ratio("Mg", "Fe", "Mg/Fe"),
     Ratio("FeOT", "MgO", "FeOT/MgO"), Ratio("Label", "MgO", "Label/MgO")}

AddRatioCalls ==
    {[NoCall EXCEPT !.op = "add_ratio", !.ratio = x, !.molecular = m] :
        x \in Ratios, m \in BOOLEAN}

AddMgNoCalls ==
    {[NoCall EXCEPT !.op = "add_MgNo", !.molecular = m, !.use_total_approx = a] :
        m \in BOOLEAN, a \in BOOLEAN}

InitRatio ==
    InitOf(AddRatioCalls \cup AddMgNoCalls, SubSeqs(RatioNames, MaxCols), Vals \cup {R(0)})

\* add_ratio(df, ratio, norm_to=norm_to, molecular=molecular)
CallAddRatio ==
    /\ pc = "start" /\ call.op = "add_ratio"
    /\ \E o \in {add_ratio(input_df, call.ratio, call.norm_to, call.norm_pair, refcomp,
                            call.molecular)} : Deliver(o)

\* add_MgNo(df, molecular=molecular, use_total_approx=use_total_approx)
CallAddMgNo ==
    /\ pc = "start" /\ call.op = "add_MgNo"
    /\ \E o \in {add_MgNo(input_df, call.molecular, call.use_total_approx)} : Deliver(o)

NextRatio == CallAddRatio \/ CallAddMgNo

SpecRatio == InitRatio /\ [][NextRatio]_vars

-----------------------------------------------------------------------------
(* add_ratio with normalisation requested *)

\* "MgO/FeO", "Mg/Fe_N" (den "fe_n" -> "Fe"), "MgO/FeO_N" (den "feo_n" -> "Feo"), "Label/MgO"
NormRatios ==
    {RatioParts("MgO", "FeO", "MgO/FeO", FALSE), RatioParts("Mg", "Fe", "Mg/Fe_N", TRUE),
     RatioParts("MgO", "Feo", "MgO/FeO_N", TRUE), RatioParts("Label", "MgO", "Label/MgO", FALSE)}

\* norm_to with the override it stands for
NormTargets ==
    {<<NoneTo, <<>>>>, <<"Chondrite_PON", <<>>>>, <<"RefComp", <<>>>>,
     <<"collection", <<R(1), R(10)>>>>, <<"collection", <<R(2), R(1)>>>>,
     <<"collection", <<R(1), R(10), R(1)>>>>}

AddRatioNormCalls ==
    {[NoCall EXCEPT !.op = "add_ratio", !.ratio = x, !.molecular = m,
                    !.norm_to = n[1], !.norm_pair = n[2]] :
        x \in NormRatios, m \in BOOLEAN, n \in NormTargets}

InitNorm ==
    InitOf(AddRatioNormCalls, SubSeqs(RatioNames, MaxCols), Vals \cup {R(0)})

NextNorm == CallAddRatio

SpecNorm == InitNorm /\ [][NextNorm]_vars

-----------------------------------------------------------------------------
(* add_MgNo with the ferrous approximation, on tables that hold ferric iron *)

MgNoNames == <<"MgO", "FeO", "Fe2O3", "Fe2O3T">>

FerrousMgNoCalls ==
    {[NoCall EXCEPT !.op = "add_MgNo", !.molecular = m] : m \in BOOLEAN}

\* every row of Mg# is computed from that row alone (line 499): tables of one row
InitMgNo ==
    /\ pc = "start"
    /\ call \in FerrousMgNoCalls
    /\ IsTableOver(input_df, SubSeqs(MgNoNames, MaxMgCols), 1, Vals \cup {R(0)})
    /\ before = input_df
    /\ df = EmptyTable
    /\ df_is_input = FALSE
    /\ result = EmptyTable
    /\ err = "none"
    /\ plan = NoPlan
    /\ refcomp = Chondrite_PON

NextMgNo == CallAddMgNo

SpecMgNo == InitMgNo /\ [][NextMgNo]_vars

\* the four operations that write columns, together
InitFrame == InitAgg \/ InitRatio

NextFrame == CallAggregateElement \/ CallRecalculateFe \/ CallAddRatio \/ CallAddMgNo

SpecFrame == InitFrame /\ [][NextFrame]_vars

-----------------------------------------------------------------------------
(* convert_chemistry                                                       *)
(* The request list `to` is a sequence of specs: Single(name) for a plain  *)
(* name or a ratio string, Mapping(...) for a dictionary.                  *)

RatioOf(name) == CHOOSE x \in Ratios : x.name = name

\* "/" in name
IsRatioString(name) == \E x \in Ratios : x.name = name

\* "Fe" in name
ContainsFe(name) == name \in {"Fe", "FeO", "Fe2O3", "FeOT", "Fe2O3T"}

RECURSIVE KeysOfAll(_)
\* line 669
KeysOfAll(sets) ==
    IF sets = <<>> THEN <<>> ELSE Keys(Head(sets)) \o KeysOfAll(Tail(sets))

RECURSIVE NamesOf(_)
\* the plain strings of a request list, in order
NamesOf(to) ==
    IF to = <<>> THEN <<>>
    ELSE (IF Head(to).kind = "str" THEN <<Head(to).name>> ELSE <<>>) \o NamesOf(Tail(to))

RECURSIVE SinglesOf(_)
SinglesOf(names) ==
    IF names = <<>> THEN <<>> ELSE <<Single(Head(names))>> \o SinglesOf(Tail(names))

\* lines 662-664
coupled_sets_of(to) == SeqFilter(to, {i \in Range(to) : i.kind # "str"})

\* lines 671-673
present_comp_of(t, to) ==
    SeqFilter(t.columns, compositional_components) \o KeysOfAll(coupled_sets_of(to))

\* line 674
noncomp_of(t, to) == SeqReject(t.columns, Range(present_comp_of(t, to)))

\* line 675
new_ratios_of(t, to) ==
    SeqFilter(NamesOf(to), {x \in Range(NamesOf(to)) : IsRatioString(x) /\ ~HasCol(t, x)})

\* line 676
get_comp_of(t, to) ==
    SeqReject(NamesOf(to), Range(noncomp_of(t, to)) \cup Range(new_ratios_of(t, to)))

\* line 698
coupled_fe_of(sets) ==
    SeqFilter(sets, {x \in Range(sets) : \A k \in Range(Keys(x)) : ContainsFe(k)})

\* lines 699-700: a requested iron mapping replaces the requested iron names
iron_targets(sets, get_fe) ==
    IF coupled_fe_of(sets) # <<>> THEN coupled_fe_of(sets) ELSE SinglesOf(get_fe)

\* one target too many tolerated
more_than_two_targets(targets) == Len(targets) > 2

\* line 702
more_than_one_target(targets) == Len(targets) > 1

\* the working table is the caller's object
working_table_is_input == TRUE

\* line 657: df = input_df.copy() is a new object
working_table_aliases_input == FALSE

\* the working reference now holds the outcome o of a call on the working table
Rebind(o) ==
    /\ df' = o.ret
    /\ input_df' = IF df_is_input THEN o.arg ELSE input_df
    /\ df_is_input' = (df_is_input /\ o.same)

\* an exception e leaves convert_chemistry; the table passed to the failing
\* call is left as that call left it
Raise(e, arg) ==
    /\ err' = e
    /\ pc' = "raised"
    /\ input_df' = IF df_is_input THEN arg ELSE input_df
    /\ UNCHANGED <<df, df_is_input, result>>

\* lines 657-687
CCPlan ==
    /\ pc = "start" /\ call.op = "convert_chemistry"
    /\ df' = input_df
    /\ df_is_input' = working_table_aliases_input
    /\ LET to == call.tolist
           present == present_comp_of(input_df, to)
           getcomp == get_comp_of(input_df, to)
           aggp    == SeqFilter(getcomp, Range(present))
           getnp   == SeqReject(getcomp, Range(present))
           curfe   == {x \in Range(present) : ContainsFe(x)}
           getfe   == SeqFilter(getnp, {x \in Range(getnp) : ContainsFe(x)})
       IN  plan' = [NoPlan EXCEPT
                        !.noncomp = noncomp_of(input_df, to),
                        !.get_comp = getcomp,
                        !.coupled_sets = coupled_sets_of(to),
                        !.coupled_components = KeysOfAll(coupled_sets_of(to)),
                        !.new_ratios = new_ratios_of(input_df, to),
                        !.ratios_left = new_ratios_of(input_df, to),
                        !.agg_present = Range(aggp) \ curfe,
                        !.get_notpresent = Range(getnp) \ Range(getfe),
                        !.get_fe = getfe]
    /\ pc' = "aggregate"
    /\ UNCHANGED <<call, before, input_df, result, err, refcomp>>

\* lines 690-691: one pass of the loop; the two lists come from sets, so the
\* order within each is arbitrary
CCAggregate ==
    /\ pc = "aggregate"
    /\ plan.agg_present \cup plan.get_notpresent # {}
    /\ \E item \in (IF plan.agg_present # {} THEN plan.agg_present
                    ELSE plan.get_notpresent) :
         \E o \in {aggregate_element(df, Single(item), FALSE, call.molecular)} :
             IF o.err # "none"
             THEN Raise(o.err, o.arg) /\ plan' = plan
             ELSE /\ Rebind(o)
                  /\ plan' = [plan EXCEPT !.agg_present = @ \ {item},
                                          !.get_notpresent =
                                              IF plan.agg_present # {} THEN @
                                              ELSE @ \ {item}]
                  /\ UNCHANGED <<pc, result, err>>
    /\ UNCHANGED <<call, before, refcomp>>

\* lines 693-710
CCIron ==
    /\ pc = "aggregate"
    /\ plan.agg_present \cup plan.get_notpresent = {}
    /\ \E targets \in {iron_targets(plan.coupled_sets, plan.get_fe)} :
           IF more_than_one_target(targets)
           THEN Raise("NotImplementedError", df) /\ plan' = plan
           ELSE IF targets = <<>>
           THEN /\ pc' = "ratios"
                /\ UNCHANGED <<input_df, df, df_is_input, result, err, plan>>
           ELSE \E o \in {recalculate_Fe(df, targets[1], FALSE, call.molecular)} :
                    IF o.err # "none"
                    THEN Raise(o.err, o.arg) /\ plan' = plan
                    ELSE /\ Rebind(o)
                         /\ plan' = [plan EXCEPT !.fe_run = TRUE]
                         /\ pc' = "ratios"
                         /\ UNCHANGED <<result, err>>
    /\ UNCHANGED <<call, before, refcomp>>

\* lines 713-716: one pass of the loop over the new ratios
CCRatio ==
    /\ pc = "ratios"
    /\ plan.ratios_left # <<>>
    /\ \E o \in {add_ratio(df, RatioOf(Head(plan.ratios_left)), NoneTo, <<>>, refcomp,
                            call.molecular)} :
           IF o.err # "none"
           THEN Raise(o.err, o.arg) /\ plan' = plan
           ELSE /\ Rebind(o)
                /\ plan' = [plan EXCEPT !.ratios_left = Tail(@)]
                /\ UNCHANGED <<pc, result, err>>
    /\ UNCHANGED <<call, before, refcomp>>

RECURSIVE write_back(_, _, _)
\* line 726: df.loc[:, present_comp] = renormalised columns
write_back(t, sub, j) ==
    IF j > Len(sub.columns) THEN t
    ELSE write_back(SetCol(t, sub.columns[j], sub.values[j]), sub, j + 1)

\* the output columns with the keys of the mappings ahead of the requested names
output_columns_keys_first(p) ==
    p.noncomp \o p.coupled_components \o p.get_comp \o p.new_ratios

\* line 722
output_columns_of(p) ==
    p.noncomp \o p.get_comp \o p.coupled_components \o p.new_ratios

\* lines 720-730
CCFinish ==
    /\ pc = "ratios"
    /\ plan.ratios_left = <<>>
    /\ LET remaining == SeqReject(plan.get_comp, Range(df.columns))
           output_columns == output_columns_of(plan)
           present == SeqFilter(df.columns, compositional_components)
       IN  IF remaining # <<>>
           THEN Raise("AssertionError", df) /\ plan' = [plan EXCEPT !.remaining = remaining]
           ELSE \E final \in {IF call.renorm
                              THEN write_back(df, renormalise(SelectCols(df, present)), 1)
                              ELSE df} :
                IF \E c \in Range(output_columns) : ~HasCol(final, c)
                THEN Raise("KeyError", final) /\ plan' = plan
                ELSE /\ result' = SelectCols(final, output_columns)
                     /\ df' = final
                     /\ input_df' = IF df_is_input THEN final ELSE input_df
                     /\ pc' = "done"
                     /\ UNCHANGED <<df_is_input, err, plan>>
    /\ UNCHANGED <<call, before, refcomp>>

CCNames == <<"Label", "MgO", "FeOT">>

CCItems ==
    {Single(x) : x \in {"MgO", "FeO", "Fe", "MgO/FeO", "Label"}}
        \cup {Mapping(<< <<"FeO", Frac(9, 10)>>, <<"Fe2O3", Frac(1, 10)>> >>),
              Mapping(<< <<"FeO", R(1)>>, <<"Fe2O3", R(1)>> >>),
              Mapping(<< <<"MgO", R(1)>>, <<"CaO", R(1)>> >>)}

CCCalls ==
    {[NoCall EXCEPT !.op = "convert_chemistry", !.tolist = to,
                    !.renorm = f[1], !.molecular = f[2]] :
        to \in Arrangements(CCItems, MaxTo),
        f \in {<<FALSE, FALSE>>, <<TRUE, TRUE>>}}

InitCC == InitOf(CCCalls, SubSeqs(CCNames, MaxCols), {NaN, R(2)})

NextCC == CCPlan \/ CCAggregate \/ CCIron \/ CCRatio \/ CCFinish

SpecCC == InitCC /\ [][NextCC]_vars

-----------------------------------------------------------------------------
(* convert_chemistry on requests of plain names of one cation: the loop of   *)
(* lines 690-691 runs over two or more names, in an order the sets decide    *)

OrderNames == <<"Label", "Mg", "MgO", "CaO">>

OrderCalls ==
    {[NoCall EXCEPT !.op = "convert_chemistry", !.tolist = to,
                    !.renorm = f[1], !.molecular = f[2]] :
        to \in Arrangements({Single(x) : x \in {"Mg", "MgO", "CaO"}}, MaxTo),
        f \in {<<FALSE, FALSE>>, <<TRUE, FALSE>>, <<FALSE, TRUE>>}}

InitOrder == InitOf(OrderCalls, SubSeqs(OrderNames, MaxCols), {NaN, R(2)})

NextOrder == CCPlan \/ CCAggregate \/ CCIron \/ CCFinish

SpecOrder == InitOrder /\ [][NextOrder]_vars

-----------------------------------------------------------------------------
(* lambda_lnREE                                                            *)
(* Rows are identified by their position: row r of the returned table has  *)
(* the index label of row r of the input (line 600).                       *)

\* ind.REE(), within the model's names
REE == <<"La", "Ce", "Eu">>

\* np.log on the values the model holds: the logarithm to base 10 of a
\* power of ten, null for a null
RECURSIVE Ln(_)
Ln(v) ==
    IF ~IsFinite(v) \/ v[1] <= 0 THEN NaN
    ELSE IF v = R(1) THEN R(0)
    ELSE IF v[1] % 10 = 0 THEN RAdd(R(1), Ln(<<v[1] \div 10, v[2]>>))
    ELSE IF v[2] % 10 = 0 THEN RAdd(R(-1), Ln(<<v[1], v[2] \div 10>>))
    ELSE NaN

RECURSIVE Pow(_, _)
Pow(b, e) == IF e = 0 THEN 1 ELSE b * Pow(b, e - 1)

RECURSIVE Moment(_, _, _)
Moment(row, d, i) ==
    IF i > Len(row) THEN R(0)
    ELSE RAdd(RMul(row[i], R(Pow(i, d))), Moment(row, d, i + 1))

\* util.math.lambdas: the coefficients fitted to one row, a linear function of
\* the row; a null in the row makes every coefficient null
lambdas(row, degree) == [d \in 1..degree |-> Moment(row, d - 1, 1)]

LabelNames == <<"lambda0", "lambda1", "lambda2", "lambda3">>

\* line 580
labels(degree) == SubSeq(LabelNames, 1, degree)

\* line 562
non_null_cols(t) ==
    {c \in Range(t.columns) : \E r \in 1..t.n : ~IsNaN(Col(t, c)[r])}

\* lines 563-569
ree_of(t, exclude) ==
    SeqFilter(REE, {i \in Range(REE) :
                        HasCol(t, i) /\ i \notin exclude /\ i \in non_null_cols(t)})

\* line 577
null_in_row(t, ree) == [r \in 1..t.n |-> \E c \in Range(ree) : IsNaN(Col(t, c)[r])]

\* the number of rows up to r that line 578 keeps
RECURSIVE Rank(_, _)
Rank(mask, r) ==
    IF r = 0 THEN 0 ELSE Rank(mask, r - 1) + (IF mask[r] THEN 0 ELSE 1)

\* norm_to is a RefComp object: the caller's object
IsRefCompObject(norm_to) == norm_to = "RefComp"

\* lines 583-590: the composition whose values divide the data, in the units
\* `scale`; rc is the caller's object
norm_of(norm_to, sc, rc) ==
    IF IsRefCompObject(norm_to) THEN set_units(rc, sc)
    ELSE set_units(Chondrite_PON, sc)

\* lines 587-589: norm = norm_to; norm.set_units(scale) acts on the caller's object
refcomp_after(norm_to, sc, rc) ==
    IF IsRefCompObject(norm_to) THEN set_units(rc, sc) ELSE rc

\* lines 578-598: row r of the input as it is handed to the fit
norm_row(t, ree, norm_to, sc, rc, r) ==
    LET raw == [i \in 1..Len(ree) |-> Col(t, ree[i])[r]]
        normed == IF norm_to = NoneTo THEN raw
                  ELSE [i \in 1..Len(ree) |->
                           RDiv(raw[i], norm_of(norm_to, sc, rc).value[ree[i]])]
    IN  IF \E i \in 1..Len(ree) : RLeq(normed[i], R(0))
        THEN [i \in 1..Len(ree) |-> NaN]
        ELSE [i \in 1..Len(ree) |-> Ln(normed[i])]

\* lines 606-609: the coefficients written to row r
lambda_row(t, ree, norm_to, sc, rc, degree, r) ==
    IF null_in_row(t, ree)[r] THEN [d \in 1..degree |-> NaN]
    ELSE LET fit == lambdas(norm_row(t, ree, norm_to, sc, rc, r), degree)
         IN  IF \A d \in 1..degree : fit[d] = R(0)
             THEN [d \in 1..degree |-> NaN]
             ELSE fit

\* lines 606-608: np.apply_along_axis has no row to iterate over
lambda_lnREE_error(t, ree) ==
    IF Rank(null_in_row(t, ree), t.n) = 0 THEN "ValueError" ELSE "none"

\* a cell holding a Python callable
Callable == <<0, -1>>

\* lines 613-618: lambda_poly_func builds one callable per row of lambdadf
poly_func_column(n) == [r \in 1..n |-> Callable]

\* line 620: pd.to_numeric(errors="coerce") on one cell
to_numeric(v) == IF v = Callable THEN NaN ELSE v

\* lines 600-620: lambdadf before the coercion of line 620
lambdadf_of(t, ree, norm_to, sc, rc, degree, append) ==
    LET fitted == Table(labels(degree),
                        [d \in 1..degree |->
                            [r \in 1..t.n |->
                                lambda_row(t, ree, norm_to, sc, rc, degree, r)[d]]],
                        t.n)
    IN  IF "function" \in append
        THEN SetCol(fitted, "lambda_poly_func", poly_func_column(t.n))
        ELSE fitted

\* line 620
coerce(t) ==
    [t EXCEPT !.values =
        [i \in 1..Len(t.columns) |-> [r \in 1..t.n |-> to_numeric(t.values[i][r])]]]

\* lines 508-622, with params = None
lambda_lnREE(t, norm_to, sc, rc, exclude, degree, append) ==
    LET ree == ree_of(t, exclude)
    IN  IF lambda_lnREE_error(t, ree) # "none"
        THEN Raised(lambda_lnREE_error(t, ree), t)
        ELSE Outcome("none",
                     coerce(lambdadf_of(t, ree, norm_to, sc, rc, degree, append)),
                     t, FALSE)

LambdaNames == <<"La", "Ce", "Eu", "Label">>

LambdaCalls ==
    {[NoCall EXCEPT !.op = "lambda_lnREE", !.norm_to = x[1], !.scale = x[2],
                    !.exclude = e, !.degree = d[1], !.append = d[2]] :
        x \in {<<NoneTo, "ppm">>, <<"Chondrite_PON", "ppm">>,
               <<"RefComp", "ppm">>, <<"RefComp", "wt%">>},
        e \in {{"Pm", "Eu"}, {}},
        d \in {<<1, {}>>, <<2, {}>>, <<2, {"function"}>>}}

\* tables of up to MaxRows + 1 rows: a null in a selected column needs a
\* second row that makes the column not entirely null
InitLambda ==
    /\ pc = "start"
    /\ call \in LambdaCalls
    /\ IsTableOver(input_df, SubSeqs(LambdaNames, MaxCols), MaxRows + 1, {NaN, R(0), R(10)})
    /\ before = input_df
    /\ df = EmptyTable
    /\ df_is_input = FALSE
    /\ result = EmptyTable
    /\ err = "none"
    /\ plan = NoPlan
    /\ refcomp = Chondrite_PON

\* the caller sees the outcome o; line 589 has acted on the caller's
\* reference composition whether or not the call goes on to raise
CallLambdaLnREE ==
    /\ pc = "start" /\ call.op = "lambda_lnREE"
    /\ \E o \in {lambda_lnREE(input_df, call.norm_to, call.scale, refcomp,
                              call.exclude, call.degree, call.append)} :
           /\ err' = o.err
           /\ pc' = IF o.err = "none" THEN "done" ELSE "raised"
           /\ result' = o.ret
           /\ input_df' = o.arg
           /\ df_is_input' = o.same
    /\ refcomp' = refcomp_after(call.norm_to, call.scale, refcomp)
    /\ UNCHANGED <<call, before, df, plan>>

NextLambda == CallLambdaLnREE

SpecLambda == InitLambda /\ [][NextLambda]_vars

-----------------------------------------------------------------------------
(* Claims about the single calls *)

Positive(v) == IsFinite(v) /\ RLess(R(0), v)

InUnitInterval(v) == RLeq(R(0), v) /\ RLeq(v, R(1))

TwoWaySplit ==
    /\ call.op = "aggregate_element" /\ call.to.kind = "dict"
    /\ Len(call.to.items) = 2 /\ ~call.renorm
    /\ SeqSum(Proportions(call.to)) = R(1)
    /\ \A i \in 1..2 : InUnitInterval(Proportions(call.to)[i])

\* the cation-equivalent quantity of the value written in row r of column name
CationEquivalent(t, name, r) ==
    convert_value(Col(t, name)[r], name, resolve_cation(call.to), call.molecular)

\* C3: after aggregate_element with to = {A: p, B: 1-p}, in every row whose
\* aggregate is not null the cation equivalents of the written A and B columns
\* add up to the elemental_sum of the row before the call
C3_SplitConservesCation ==
    (pc = "done" /\ TwoWaySplit) =>
        \A r \in 1..before.n :
            LET agg == elemental_sum(before, call.to, NoneTo, call.molecular)[r]
            IN  ~IsNaN(agg) =>
                    RAdd(CationEquivalent(result, Keys(call.to)[1], r),
                         CationEquivalent(result, Keys(call.to)[2], r)) = agg

C3_Witness ==
    /\ pc = "done" /\ TwoWaySplit /\ ~call.molecular
    /\ Proportions(call.to) = <<Frac(9, 10), Frac(1, 10)>>
    /\ before.columns = <<"FeOT">> /\ before.n = 1 /\ before.values[1][1] = R(2)
    /\ Col(result, "FeO")[1] = Frac(9, 5)
    /\ Col(result, "Fe2O3")[1] = Frac(2, 9)

SingleSpecies ==
    /\ call.op = "elemental_sum"
    /\ Cardinality(present_species(before, resolve_cation(call.component))) = 1

TheSpecies == CHOOSE s \in present_species(before, resolve_cation(call.component)) : TRUE

\* the value of row r of the one species column converted by the single factor
ConvertedByFactor(r) ==
    LET cation == resolve_cation(call.component)
        c == convert_value(Col(before, TheSpecies)[r], remove_suffix(TheSpecies),
                           cation, call.molecular)
    IN  IF call.cast = NoneTo THEN c
        ELSE convert_value(c, cation, call.cast, call.molecular)

\* C6 as stated: with exactly one species of the cation present, every row of
\* the elemental_sum is that column's value times the conversion factor
C6_EveryRowConverted ==
    (pc = "done" /\ SingleSpecies) =>
        \A r \in 1..before.n : result.values[1][r] = ConvertedByFactor(r)

\* C6 amended: the rows whose value is positive are that value times the
\* conversion factor; the rows whose value is null, zero or negative are null
C6_PositiveRowsConverted ==
    (pc = "done" /\ SingleSpecies) =>
        \A r \in 1..before.n :
            IF Positive(Col(before, TheSpecies)[r])
            THEN result.values[1][r] = ConvertedByFactor(r)
            ELSE result.values[1][r] = NaN

C6_Witness ==
    /\ pc = "done" /\ SingleSpecies /\ ~call.molecular
    /\ call.component = Single("FeOT") /\ call.cast = "Fe2O3"
    /\ before.columns = <<"FeOT">> /\ before.n = 1 /\ before.values[1][1] = R(2)
    /\ result.columns = <<"Fe2O3">>
    /\ result.values[1][1] = Frac(20, 9)

AllPositive(t, cation) ==
    \A s \in present_species(t, cation) : \A r \in 1..t.n : Positive(Col(t, s)[r])

PositiveMgFe ==
    /\ call.op = "add_MgNo" /\ ~call.use_total_approx
    /\ present_species(before, "Mg") # {} /\ present_species(before, "Fe") # {}
    /\ AllPositive(before, "Mg") /\ AllPositive(before, "Fe")

\* C7 as stated: for positive, finite Mg and Fe species every Mg# is in [0,1]
C7_MgNoInUnitInterval ==
    (pc = "done" /\ PositiveMgFe) =>
        \A r \in 1..before.n : InUnitInterval(Col(result, "Mg#")[r])

\* C7 amended: for positive, finite Mg and Fe species every Mg# is in [0,1]
\* when an Fe column whose name does not contain "Fe2O3" is present, and is
\* null when the only Fe columns are Fe2O3 / Fe2O3T
C7_MgNoInUnitIntervalOrNull ==
    (pc = "done" /\ PositiveMgFe) =>
        \A r \in 1..before.n :
            IF \E s \in present_species(before, "Fe") : ~ContainsFe2O3(s)
            THEN InUnitInterval(Col(result, "Mg#")[r])
            ELSE Col(result, "Mg#")[r] = NaN

C7_Witness ==
    /\ pc = "done" /\ PositiveMgFe /\ ~call.molecular
    /\ before.columns = <<"MgO", "FeO">> /\ before.n = 1
    /\ before.values = << <<R(2)>>, <<R(2)>> >>
    /\ Col(result, "Mg#")[1] = Frac(9, 14)

\* C9 as stated: aggregate_element, recalculate_Fe, add_ratio and add_MgNo
\* leave the caller's table with the columns and values it had before the call
C9_CallerTableUnchanged ==
    (/\ pc \in {"done", "raised"}
     /\ call.op \in {"aggregate_element", "recalculate_Fe", "add_ratio", "add_MgNo"})
        => input_df = before

-----------------------------------------------------------------------------
(* Claims about convert_chemistry *)

Returned == pc \in {"done", "raised"} /\ call.op = "convert_chemistry"

\* the requested plain names: the strings of the request that are not ratios
PlainNames == {x \in Range(NamesOf(call.tolist)) : ~IsRatioString(x)}

\* no element, oxide or total-suffixed column of the cation of x is in the source
Underivable(x) == CanGetCation(x) /\ present_species(before, get_cation(x)) = {}

\* C1 as stated, in its last clause: convert_chemistry never returns a table
\* for a request holding a plain name that cannot be derived from the source
\* columns
C1_UnderivableNameNeverReturned ==
    (Returned /\ \E x \in PlainNames : Underivable(x)) => pc = "raised"

IronMappings == coupled_fe_of(coupled_sets_of(call.tolist))

\* the requested iron names that are not columns of the source
AbsentIronNames ==
    {x \in Range(NamesOf(call.tolist)) : ContainsFe(x) /\ ~HasCol(before, x)}

MultipleIronError == pc = "raised" /\ err = "NotImplementedError" /\ ~plan.fe_run

\* the call failed in the loop of lines 690-691, before the iron section
AggregationFailed == pc = "raised" /\ plan.agg_present \cup plan.get_notpresent # {}

\* C2 as stated: two distinct iron targets (absent iron names and iron
\* mappings counted together) make the call fail with NotImplementedError
\* before any iron redistribution
C2_TwoIronTargetsFail ==
    (Returned /\ ~AggregationFailed /\ Cardinality(AbsentIronNames) + Len(IronMappings) >= 2)
        => MultipleIronError

\* C2 amended: unless the aggregation of the other requested names has already
\* failed, two iron mappings, or two absent iron names without an iron
\* mapping, fail with NotImplementedError before any iron redistribution; with
\* exactly one iron mapping the requested iron names are not counted, the
\* redistribution toward the mapping runs and NotImplementedError is not raised
C2_IronTargetsAfterMappings ==
    (Returned /\ ~AggregationFailed) =>
        /\ (\/ Len(IronMappings) >= 2
            \/ Len(IronMappings) = 0 /\ Cardinality(AbsentIronNames) >= 2)
                => MultipleIronError
        /\ Len(IronMappings) = 1 => (plan.fe_run /\ err # "NotImplementedError")

C2_Witness ==
    /\ Returned /\ MultipleIronError
    /\ Len(IronMappings) = 0 /\ AbsentIronNames = {"FeO", "Fe"}
    /\ HasCol(before, "FeOT") /\ before.n = 1

\* C10: the input table of convert_chemistry has the columns, the order and
\* the values it had at the call, at every step, on success and on failure
C10_InputUnchanged ==
    call.op = "convert_chemistry" => input_df = before

\* a successful call in which the iron redistribution and a ratio each wrote
\* a new column into the working table
C10_Witness ==
    /\ pc = "done" /\ call.op = "convert_chemistry"
    /\ input_df = before /\ before.n = 1
    /\ plan.fe_run /\ plan.new_ratios # <<>>
    /\ \A x \in {"FeO", "MgO/FeO"} : HasCol(df, x) /\ ~HasCol(before, x)

-----------------------------------------------------------------------------
(* Claims about lambda_lnREE *)

SelectedREE == ree_of(before, call.exclude)

AllNull(t, r) == \A d \in 1..Len(t.columns) : IsNaN(t.values[d][r])

\* the fit of row r of the input, null when the fit is degenerate
FittedRow(r) ==
    lambda_row(before, SelectedREE, call.norm_to, call.scale, Chondrite_PON, call.degree, r)

\* C8 as stated: whenever some REE column is selected, lambda_lnREE returns a
\* table with one row per input row, in the input's order, in which every row
\* that has a null in a selected REE column has only null coefficients and
\* every other row holds its own fit
C8_OneRowPerInputRow ==
    (pc \in {"done", "raised"} /\ call.op = "lambda_lnREE" /\ SelectedREE # <<>>)
        => /\ pc = "done"
           /\ result.n = before.n
           /\ \A r \in 1..before.n :
                IF \E c \in Range(SelectedREE) : IsNaN(Col(before, c)[r])
                THEN AllNull(result, r)
                ELSE \A d \in 1..call.degree : result.values[d][r] = FittedRow(r)[d]

-----------------------------------------------------------------------------
(* Claims about add_MgNo with the total-iron approximation *)

\* C11 as stated: add_MgNo with use_total_approx = True completes and appends
\* the Mg# column computed from the FeO share of the redistributed iron
C11_TotalApproxCompletes ==
    (pc \in {"done", "raised"} /\ call.op = "add_MgNo" /\ call.use_total_approx)
        => (pc = "done" /\ HasCol(result, "Mg#"))

-----------------------------------------------------------------------------
(* Claims about the reference composition *)

\* C12 as stated: after lambda_lnREE or add_ratio has been called with the
\* caller's reference composition object as norm_to, the object holds the
\* values and the units it held before the call
C12_ReferenceUnchanged ==
    (/\ pc \in {"done", "raised"}
     /\ call.op \in {"lambda_lnREE", "add_ratio"}
     /\ IsRefCompObject(call.norm_to))
        => refcomp = Chondrite_PON


-----------------------------------------------------------------------------
(* C13: add_ratio with normalisation *)

NormalisationRequested ==
    call.op = "add_ratio" /\ normalisation_requested(call.ratio, call.norm_to)

\* (A/ref_A)/(B/ref_B) for row r of the table the call was given
NormalisedRatio(r) ==
    LET ref == reference_values(call.ratio, call.norm_to, call.norm_pair, Chondrite_PON)
        A == elemental_sum(before, Single(call.ratio.num), call.ratio.num, call.molecular)
        B == elemental_sum(before, Single(call.ratio.den), call.ratio.den, call.molecular)
        q == RDiv(RDiv(A[r], ref[1]), RDiv(B[r], ref[2]))
    IN  IF IsFinite(q) THEN q ELSE NaN

\* C13 as stated: when normalisation is requested and add_ratio returns, every value of
\* the ratio column is (A/ref_A)/(B/ref_B), A and B each divided by its reference value.
C13_RatioIsNormalised ==
    (pc = "done" /\ NormalisationRequested)
        => \A r \in 1..result.n : Col(result, call.ratio.name)[r] = NormalisedRatio(r)


-----------------------------------------------------------------------------
(* C14: oxide_conversion rejects incompatible compounds *)

BothParse == call.oxin \in Formulae /\ call.oxout \in Formulae

\* the form has exactly one element other than oxygen, and it is e
OnlyCation(f, e) == e # "O" /\ DOMAIN Atoms(f) \ {"O"} = {e}

SameSingleCation == \E e \in {"Mg", "Fe", "Ca", "T"} : OnlyCation(call.oxin, e) /\ OnlyCation(call.oxout, e)

\* C14: once oxide_conversion(in, out) has been called on two parseable forms, it has
\* failed with ValueError exactly when the forms do not both have one and the same single
\* non-oxygen element; the failure leaves no converted value, and every other pair
\* yields a transform (which is then applied).
C14_IncompatibleExactly ==
    (call.op = "oxide_conversion" /\ pc # "start" /\ BothParse)
        => /\ (pc = "raised" /\ err = "ValueError") <=> ~SameSingleCation
           /\ pc \in {"converted", "done"} <=> SameSingleCation
           /\ pc = "raised" => (df = EmptyTable /\ result = EmptyTable)

\* both forms have a single non-oxygen element, the two differ, and the call has failed
C14_Witness ==
    /\ call.op = "oxide_conversion" /\ pc = "raised" /\ err = "ValueError"
    /\ call.oxin = "MgO" /\ call.oxout = "Fe2O3"
    /\ input_df.n = 1


-----------------------------------------------------------------------------
(* C15: aggregate_element with a list or tuple as `to` *)

ListGiven == call.op = "aggregate_element" /\ call.to.kind = "list" /\ pc # "start"

\* the names of the list all resolve, and to one cation
OneCationList == elemental_sum_error(before, call.to, NoneTo, call.molecular) = "none"

\* C15 as stated: a list or tuple as `to` makes aggregate_element fail with
\* NotImplementedError, the caller's table unchanged.
C15_ListNotImplemented ==
    ListGiven => (pc = "raised" /\ err = "NotImplementedError" /\ input_df = before)

\* C15, amended: a list or tuple as `to` makes aggregate_element fail and leaves the
\* caller's table unchanged; the failure is NotImplementedError exactly when the names of
\* the list resolve to one cation, and otherwise the failure of the elemental sum
\* (AssertionError for names of different cations, IndexError for an empty list).
C15_ListFailsTableUnchanged ==
    ListGiven
        => /\ pc = "raised" /\ input_df = before
           /\ OneCationList => err = "NotImplementedError"
           /\ ~OneCationList => err = elemental_sum_error(before, call.to, NoneTo, call.molecular)

\* a list of two iron oxides was refused on a table that holds an iron oxide
C15_Witness ==
    /\ ListGiven /\ OneCationList
    /\ pc = "raised" /\ err = "NotImplementedError"
    /\ HasCol(before, "FeO") /\ before.n = 1


-----------------------------------------------------------------------------
(* C16: convert_chemistry and the columns it cannot produce *)

\* every name the request asks for: the plain names, the keys of the mappings, the ratios
RequestedNames ==
    Range(NamesOf(call.tolist)) \cup Range(KeysOfAll(coupled_sets_of(call.tolist)))

\* C16 as stated: convert_chemistry never fails with a column-lookup error, and a table it
\* returns holds every requested name, the keys of the mapping entries included; a column
\* it cannot produce is reported by the unattainable-output error.
C16_MissingColumnReported ==
    Returned
        => /\ err # "KeyError"
           /\ pc = "done" => \A x \in RequestedNames : HasCol(result, x)


-----------------------------------------------------------------------------
(* C17: the columns convert_chemistry returns *)

\* the columns of the source that are neither elements nor oxides, in source order
SourceNonCompositional == SeqReject(before.columns, compositional_components)

RequestedPlain == SeqFilter(NamesOf(call.tolist), PlainNames)

RequestedRatios == SeqReject(NamesOf(call.tolist), PlainNames)

RequestedKeys == KeysOfAll(coupled_sets_of(call.tolist))

\* C17 as stated: on success the returned columns are the source's non-compositional
\* columns, then the requested plain names, then the keys of the mappings, then the
\* requested ratio names, for either value of renorm.
C17_ColumnsInOrder ==
    (Returned /\ pc = "done")
        => result.columns =
              SourceNonCompositional \o RequestedPlain \o RequestedKeys \o RequestedRatios

\* C17, amended: on success the returned columns are the source's non-compositional
\* columns, then the requested plain names, then the keys of the mappings, then the
\* requested ratio names, where a requested name that is already a non-compositional
\* column of the source is not listed a second time; for either value of renorm.
C17_ColumnsInOrderOnce ==
    (Returned /\ pc = "done")
        => result.columns =
              SourceNonCompositional
                \o SeqReject(RequestedPlain, Range(SourceNonCompositional))
                \o RequestedKeys
                \o SeqReject(RequestedRatios, Range(SourceNonCompositional))

\* a renormalised table was returned for a request of a plain name, a ratio or a mapping
\* on a source with a non-compositional column
C17_Witness ==
    /\ Returned /\ pc = "done" /\ call.renorm
    /\ SourceNonCompositional # <<>>
    /\ Len(result.columns) > Len(SourceNonCompositional) + 1
    /\ RequestedKeys # <<>>
    /\ before.n = 1


-----------------------------------------------------------------------------
(* C18: the fitted function appended by lambda_lnREE *)

\* C18 as stated: with "function" in append, the returned table has the column of the
\* fitted functions beside the coefficient columns, and its value in every fitted row
\* (a row without a null in the selected REE columns) is a callable.
C18_FunctionColumnHoldsCallables ==
    (pc = "done" /\ call.op = "lambda_lnREE" /\ "function" \in call.append)
        => /\ HasCol(result, "lambda_poly_func")
           /\ \A r \in 1..result.n :
                ~null_in_row(before, SelectedREE)[r]
                    => Col(result, "lambda_poly_func")[r] = Callable


-----------------------------------------------------------------------------
(* C19: what a row of elemental_sum adds up *)

SumCation == resolve_cation(call.component)

Candidates == present_species(before, SumCation)

\* the value of candidate column s in row r, converted to the cation
ConvertedCandidate(s, r) ==
    convert_value(Col(before, s)[r], remove_suffix(s), SumCation, call.molecular)

ValidCandidate(s, r) ==
    IsFinite(ConvertedCandidate(s, r)) /\ RLeq(R(0), ConvertedCandidate(s, r))

RECURSIVE ValidSum(_, _)
\* the sum over the candidates in S of the valid converted values of row r
ValidSum(S, r) ==
    IF S = {} THEN R(0)
    ELSE LET s == CHOOSE x \in S : TRUE
         IN  RAdd(IF ValidCandidate(s, r) THEN ConvertedCandidate(s, r) ELSE R(0),
                  ValidSum(S \ {s}, r))

\* a sum of cation expressed as the component the call casts to
CastAs(v) ==
    IF call.cast = NoneTo THEN v ELSE convert_value(v, SumCation, call.cast, call.molecular)

\* C19: in every row of an elemental_sum, the negative and the non-finite converted
\* candidates count as 0 and the others are summed; a row whose sum is not strictly
\* positive is null; every non-null value is strictly positive and is the sum of the
\* row's valid converted candidates (expressed as the component asked for).
C19_ValidCandidatesSummed ==
    (pc = "done" /\ call.op = "elemental_sum")
        => \A r \in 1..before.n :
              /\ IF Positive(ValidSum(Candidates, r))
                 THEN result.values[1][r] = CastAs(ValidSum(Candidates, r))
                 ELSE result.values[1][r] = NaN
              /\ result.values[1][r] # NaN => Positive(result.values[1][r])

\* a row with one invalid and one positive candidate was summed to a positive value
C19_Witness ==
    /\ pc = "done" /\ call.op = "elemental_sum"
    /\ Cardinality(Candidates) = 2 /\ before.n = 1
    /\ \E s \in Candidates : ~ValidCandidate(s, 1) /\ RLess(Col(before, s)[1], R(0))
    /\ \E s \in Candidates : Positive(Col(before, s)[1])
    /\ Positive(result.values[1][1])


-----------------------------------------------------------------------------
(* C20: aggregate_element with renorm=True and the other columns *)

\* C20 as stated: aggregate_element with renorm=True returns every non-compositional
\* column of the table with the values it had in the input.
C20_RenormKeepsOtherColumns ==
    (pc = "done" /\ call.op = "aggregate_element" /\ call.renorm)
        => \A c \in Range(before.columns) \ compositional_components :
              HasCol(result, c) /\ Col(result, c) = Col(before, c)


-----------------------------------------------------------------------------
(* C21: Mg# and the ferric iron columns *)

FerrousMgNo == call.op = "add_MgNo" /\ ~call.use_total_approx

FerricColumns(t) == {i \in 1..Len(t.columns) : ContainsFe2O3(t.columns[i])}

\* the tables that agree with t on every column whose name does not contain "Fe2O3"
\* and hold any values in the columns whose name does
FerricVariants(t) ==
    {[t EXCEPT !.values = [i \in 1..Len(t.columns) |->
                              IF i \in FerricColumns(t) THEN f[i] ELSE t.values[i]]] :
        f \in [FerricColumns(t) -> [1..t.n -> Vals]]}

\* C21: with use_total_approx=False the Mg# column returned for a table is the Mg# of
\* every table that differs from it only in the columns named Fe2O3 or Fe2O3T, and of
\* the table without those columns.
C21_MgNoIgnoresFerric ==
    (pc = "done" /\ FerrousMgNo)
        => /\ \A alt \in FerricVariants(before) :
                  Col(result, "Mg#") = Col(add_MgNo(alt, call.molecular, FALSE).ret, "Mg#")
           /\ Col(result, "Mg#") =
                  Col(add_MgNo(DropCols(before, {"Fe2O3", "Fe2O3T"}),
                               call.molecular, FALSE).ret, "Mg#")

\* a Mg# was returned for a table with magnesium, ferrous and ferric iron
C21_Witness ==
    /\ pc = "done" /\ FerrousMgNo
    /\ before.columns = <<"MgO", "FeO", "Fe2O3">> /\ before.n = 1
    /\ before.values = << <<R(2)>>, <<R(2)>>, <<R(2)>> >>
    /\ Col(result, "Mg#")[1] = Frac(9, 14)


-----------------------------------------------------------------------------
(* C22: aggregate_element applied twice *)

\* the table returned by the first application, computed from the table given
FirstResult == aggregate_element(before, call.to, call.renorm, call.molecular).ret

\* C22 as stated: for a single target name, once the first application has returned, the
\* second application returns as well, with the columns and values of the first result.
C22_SecondApplicationSame ==
    (/\ call.op = "aggregate_element" /\ pc \in {"done", "raised"}
     /\ aggregate_element_error(before, call.to, call.molecular) = "none")
        => (pc = "done" /\ result = FirstResult)


-----------------------------------------------------------------------------
(* C23: the order of the aggregation loop of convert_chemistry *)

\* the present names the loop consolidates (line 686) and the absent names it creates
LoopPresent ==
    (Range(plan.get_comp) \cap Range(present_comp_of(before, call.tolist)))
        \ {x \in Range(plan.get_comp) : ContainsFe(x)}

LoopAbsent ==
    (Range(plan.get_comp) \ Range(present_comp_of(before, call.tolist)))
        \ {x \in Range(plan.get_comp) : ContainsFe(x)}

\* every order of the names of S
Orderings(S) == {s \in Arrangements(S, Cardinality(S)) : Len(s) = Cardinality(S)}

\* the orders the loop can take: agg_present in any order, then get_notpresent in any
LoopOrders == {a \o b : a \in Orderings(LoopPresent), b \in Orderings(LoopAbsent)}

RECURSIVE LoopRun(_, _)
\* the loop run over the names of items in that order, from table t
LoopRun(t, items) ==
    IF items = <<>> THEN [err |-> "none", table |-> t]
    ELSE LET o == aggregate_element(t, Single(Head(items)), FALSE, call.molecular)
         IN  IF o.err # "none" THEN [err |-> o.err, table |-> t]
             ELSE LoopRun(o.ret, Tail(items))

\* what convert_chemistry gives, for a request without iron names, mappings and ratios,
\* when the loop takes the order items: the exception, or the table returned
OutcomeOfOrder(items) ==
    LET run == LoopRun(before, items)
        present == SeqFilter(run.table.columns, compositional_components)
        final == IF call.renorm
                 THEN write_back(run.table, renormalise(SelectCols(run.table, present)), 1)
                 ELSE run.table
    IN  IF run.err # "none" THEN [err |-> run.err, table |-> EmptyTable]
        ELSE IF \E x \in Range(plan.get_comp) : ~HasCol(run.table, x)
        THEN [err |-> "AssertionError", table |-> EmptyTable]
        ELSE [err |-> "none", table |-> SelectCols(final, output_columns_of(plan))]

\* C23 as stated: whatever order the aggregation loop takes, convert_chemistry ends the
\* same way: the outcome of the call is the outcome of every order of the loop, the same
\* exception or the same returned columns and values.
C23_LoopOrderIrrelevant ==
    Returned
        => \A items \in LoopOrders :
              OutcomeOfOrder(items) = [err |-> err, table |-> result]

=============================================================================
